---- MODULE Spec2Model ----
(***************************************************************************)
(* Model of src/app.py, the Streamlit sales dashboard.                     *)
(*                                                                         *)
(* The program is a script that Streamlit runs from top to bottom once per *)
(* user interaction.  Its state is                                         *)
(*   - the SQLite file sales_data.db (tables users and sales), which       *)
(*     outlives sessions and processes;                                    *)
(*   - the CSV file the data is ingested from;                             *)
(*   - the in-process cache of load_data (@st.cache_data);                 *)
(*   - st.session_state (logged_in, username, role, data) and the values   *)
(*     of the sidebar widgets, one copy per browser session;               *)
(*   - what the last script run computed and showed.                       *)
(* One action is one interaction together with the script run(s) it        *)
(* triggers.  Amounts are whole numbers (the data set's amounts are whole  *)
(* dollars), dates are the integer yyyymmdd, which orders like the date.   *)
(***************************************************************************)
EXTENDS Integers, Sequences, FiniteSets, TLC

VARIABLES
    users,        \* table users: set of [username, password, role]
    sales,        \* table sales: [has_id, seq, rows]
    csv,          \* the CSV file: [exists, rows]
    cache,        \* st.cache_data entry of load_data: [hit, value]
    logged_in,    \* st.session_state.logged_in
    username,     \* st.session_state.username
    role,         \* st.session_state.role
    data,         \* st.session_state.data: [loaded, rows] (loaded = FALSE is None)
    widgets,      \* values of the sidebar widgets of this session
    rendered,     \* whether the last script run built the sidebar widgets
    df,           \* the scoped frame of the last script run (line 161-166)
    filtered_df,  \* the filtered and sorted frame of the last run (line 190-202)
    anomalies,    \* the anomaly table of the last run (line 397)
    top_reps,     \* the series behind "Top 5 Sales Reps" (line 211)
    monthly,      \* the monthly series of the chosen metric (line 238)
    drops,        \* positions of the flagged months (line 405-406)
    message,      \* what the last run reported (st.success / st.error / exception)
    sql,          \* the statement on sales the last run executed: [stmt, id]
    ingests,      \* number of times the body of load_data has run
    restarts,     \* number of process restarts so far
    inserts,      \* number of INSERTs so far
    mutated,      \* this session has reloaded data from the store after a mutation
    override      \* the last sale-type override the store accepted

(* The series of the charts and of the drop alert, which the script shows   *)
(* and does not keep; SpecTop and SpecTrend compute them.                  *)
charts == << top_reps, monthly, drops >>

vars == << users, sales, csv, cache, logged_in, username, role, data, widgets,
           rendered, df, filtered_df, anomalies, top_reps, monthly, drops, message, sql,
           ingests, restarts, inserts, mutated, override >>

-----------------------------------------------------------------------------
(* Bounds of the model.                                                    *)

MaxCsvRows == 2
MaxTouched == 1
MaxQueryRows == 2
MaxUsers == 2
MaxRestarts == 1
MaxInserts == 1
MaxId == 1
MaxTopGroups == 6
MaxTrendRows == 3
MaxTrendValue == 3

(* Constants of the program.                                               *)

WholesaleBoxes == 100
WholesaleAmount == 5000
AnomalyThreshold == 15000
TopCount == 5
DropThreshold == -50
YearPivot == 68

-----------------------------------------------------------------------------
(* Generic helpers on sequences.                                           *)

Range(s) == { s[i] : i \in 1..Len(s) }

RECURSIVE SumSeq(_)
SumSeq(s) == IF s = << >> THEN 0 ELSE Head(s) + SumSeq(Tail(s))

(* The orders the elements of S can be put in, and the permutations of     *)
(* 1..n.                                                                   *)
RECURSIVE Orders(_)
Orders(S) ==
    IF S = {} THEN { << >> }
    ELSE UNION { { << x >> \o p : p \in Orders(S \ {x}) } : x \in S }

Perms(n) == Orders(1..n)

Min(S) == CHOOSE x \in S : \A y \in S : x <= y
Max(S) == CHOOSE x \in S : \A y \in S : y <= x

(* pandas unique(): the distinct values in order of first appearance.      *)
RECURSIVE UniqueSeq(_)
UniqueSeq(s) ==
    IF s = << >> THEN << >>
    ELSE LET rest == UniqueSeq(SubSeq(s, 1, Len(s) - 1))
             x == s[Len(s)]
         IN  IF x \in Range(rest) THEN rest ELSE Append(rest, x)

Column(frame, col) == [ i \in 1..Len(frame) |-> frame[i][col] ]

-----------------------------------------------------------------------------
(* Ingestion and normalisation: load_data, lines 81-100.                   *)

(* Line 86: the regex replace removes every "$", "," and " " of Amount.    *)
StripCurrency(chars) == SelectSeq(chars, LAMBDA c : c \notin {"$", ",", " "})

DigitValue(c) ==
    CASE c = "0" -> 0 [] c = "1" -> 1 [] c = "2" -> 2 [] c = "3" -> 3
      [] c = "4" -> 4 [] c = "5" -> 5 [] c = "6" -> 6 [] c = "7" -> 7
      [] c = "8" -> 8 [] c = "9" -> 9

(* Line 86: astype(float) of the stripped text (whole numbers only).       *)
RECURSIVE ToFloat(_)
ToFloat(chars) ==
    IF chars = << >> THEN 0
    ELSE 10 * ToFloat(SubSeq(chars, 1, Len(chars) - 1)) + DigitValue(chars[Len(chars)])

MonthNumber(b) ==
    CASE b = "Jan" -> 1 [] b = "Feb" -> 2 [] b = "Mar" -> 3 [] b = "Apr" -> 4
      [] b = "May" -> 5 [] b = "Jun" -> 6 [] b = "Jul" -> 7 [] b = "Aug" -> 8
      [] b = "Sep" -> 9 [] b = "Oct" -> 10 [] b = "Nov" -> 11 [] b = "Dec" -> 12

(* Line 87: to_datetime(format='%d-%b-%y') then strftime('%Y-%m-%d').  A   *)
(* two-digit year up to YearPivot is 20yy, above it 19yy.                  *)
ParseDate(raw) ==
    LET year == IF raw.y <= YearPivot THEN 2000 + raw.y ELSE 1900 + raw.y
    IN  year * 10000 + MonthNumber(raw.b) * 100 + raw.d

(* Lines 89-92: the default sale type.                                     *)
Classify(boxes, amount) ==
    IF boxes > WholesaleBoxes \/ amount > WholesaleAmount THEN "Wholesale" ELSE "Retail"

(* Lines 86-95: one CSV row to one canonical row.                          *)
NormalizeRow(raw) ==
    LET amount == ToFloat(StripCurrency(raw.Amount))
    IN  [ sales_person  |-> raw.SalesPerson,
          country       |-> raw.Country,
          product       |-> raw.Product,
          date          |-> ParseDate(raw.Date),
          amount        |-> amount,
          boxes_shipped |-> raw.BoxesShipped,
          sale_type     |-> Classify(raw.BoxesShipped, amount) ]

Normalize(rawRows) == [ i \in 1..Len(rawRows) |-> NormalizeRow(rawRows[i]) ]

(* The rows a CSV file of the model is made of.                            *)
RawPool ==
    { [ SalesPerson |-> "Alice", Country |-> "India", Product |-> "50% Dark Bites",
        Date |-> [d |-> 4, b |-> "Jan", y |-> 22],
        Amount |-> << "$", "1", "6", ",", "0", "0", "0", " " >>, BoxesShipped |-> 10 ],
      [ SalesPerson |-> "Bob", Country |-> "UK", Product |-> "Milk Bars",
        Date |-> [d |-> 15, b |-> "Feb", y |-> 22],
        Amount |-> << "$", "1", "0", "0", " " >>, BoxesShipped |-> 5 ] }

CsvFiles ==
    UNION { [1..n -> RawPool] : n \in 1..MaxCsvRows }

-----------------------------------------------------------------------------
(* The record store: init_db (lines 30-56), to_sql (line 98) and the SQL   *)
(* statements of main.                                                     *)

Columns == { "sales_person", "country", "product", "date", "amount",
             "boxes_shipped", "sale_type" }

(* Lines 34-45: CREATE TABLE IF NOT EXISTS sales with an AUTOINCREMENT id. *)
EmptySalesTable == [ has_id |-> TRUE, seq |-> 0, rows |-> << >> ]

(* Line 98: to_sql(if_exists='replace', index=False) drops the table and   *)
(* creates it again from the frame's columns, which hold no id.            *)
ToSqlReplace(frame) == [ has_id |-> FALSE, seq |-> 0, rows |-> frame ]

(* Lines 103-107: SELECT * FROM sales.                                     *)
LoadDataFromDb(table) == table.rows

IdPresent(table, id) ==
    table.has_id /\ \E i \in 1..Len(table.rows) : table.rows[i].id = id

(* Lines 337-340: INSERT INTO sales (...) VALUES (...).  A table with the  *)
(* AUTOINCREMENT id assigns the next id; one without the column stores     *)
(* the seven given values.                                                 *)
SqlInsert(table, rec) ==
    IF table.has_id
    THEN [ table EXCEPT !.seq = table.seq + 1,
                        !.rows = Append(table.rows,
                            [ c \in Columns \cup {"id"} |->
                                IF c = "id" THEN table.seq + 1 ELSE rec[c] ]) ]
    ELSE [ table EXCEPT !.rows = Append(table.rows, rec) ]

(* Lines 280 and 370-375: UPDATE sales SET ... WHERE id = ?, on a table    *)
(* that has the id column.  fields is the set of columns that are set.     *)
SqlUpdate(table, id, rec, fields) ==
    [ table EXCEPT !.rows =
        [ i \in 1..Len(table.rows) |->
            IF table.rows[i].id = id
            THEN [ c \in DOMAIN table.rows[i] |->
                     IF c \in fields THEN rec[c] ELSE table.rows[i][c] ]
            ELSE table.rows[i] ] ]

(* Line 384: DELETE FROM sales WHERE id = ?, on a table with the column.   *)
SqlDelete(table, id) ==
    [ table EXCEPT !.rows = SelectSeq(table.rows, LAMBDA r : r.id # id) ]

-----------------------------------------------------------------------------
(* Users: authenticate_user (lines 59-66) and add_user (lines 68-78).      *)

(* bleach.clean escapes the markup-significant characters of the text.     *)
Clean(name) == IF name = "A&B" THEN "A&amp;B" ELSE name

(* pbkdf2_sha256.hash / verify: the stored value is not the plaintext and  *)
(* verifies exactly the password it was made from.                         *)
Hash(password) == << "pbkdf2-sha256", password >>
Verify(password, hashed) == hashed = Hash(password)

Usernames == { "Alice", "A&B" }
Passwords == { "pw", "guess" }
RegisterRoles == { "Owner", "Sales Rep" }

(* Lines 62-66.  The result is <<success, role>>.                          *)
AuthenticateUser(name, password, table) ==
    LET found == { u \in table : u.username = Clean(name) }
    IN  IF \E u \in found : Verify(password, u.password)
        THEN << TRUE, (CHOOSE u \in found : TRUE).role >>
        ELSE << FALSE, "" >>

(* Lines 69-78.  The result is <<inserted, table>>.                        *)
AddUser(name, password, r, table) ==
    IF \E u \in table : u.username = Clean(name)
    THEN << FALSE, table >>
    ELSE << TRUE, table \cup { [ username |-> Clean(name),
                                 password |-> Hash(password), role |-> r ] } >>

(* A users table the program may find in sales_data.db when it starts: the *)
(* file outlives the process, line 48 creates the table only IF NOT EXISTS *)
(* and the role column is unconstrained TEXT.  The Register form itself    *)
(* writes the two roles of its selectbox only (line 145).                  *)
StoredUserTables ==
    { { [ username |-> "Alice", password |-> Hash("pw"), role |-> "Manager" ] } }

-----------------------------------------------------------------------------
(* The access scope: main, lines 161-166.                                  *)

ScopeOpen(rows, r, name) == rows

Scope(rows, r, name) ==
    IF r = "Sales Rep"
    THEN SelectSeq(rows, LAMBDA rec : rec.sales_person = name)
    ELSE rows

(* Lines 273, 323 and 350: the mutation forms are built for the Owner.     *)
IsOwnerAnyone(r) == TRUE

IsOwner(r) == r = "Owner"

-----------------------------------------------------------------------------
(* The sidebar widgets: main, lines 168-187.                               *)

SaleTypes == { "Retail", "Wholesale" }
SortKeys == { "amount", "boxes_shipped", "date" }
SortOrders == { "Ascending", "Descending" }
Metrics == { "amount", "boxes_shipped" }

MultiSelects == { "countries", "products", "sales_persons" }
Sliders == { "date_range", "amount_range", "boxes_range" }
WidgetColumn(w) ==
    CASE w = "countries" -> "country"
      [] w = "products" -> "product"
      [] w = "sales_persons" -> "sales_person"
      [] w = "date_range" -> "date"
      [] w = "amount_range" -> "amount"
      [] w = "boxes_range" -> "boxes_shipped"

Extent(frame, col) == << Min(Range(Column(frame, col))), Max(Range(Column(frame, col))) >>

(* The widgets' values when nothing has been touched (frame is not empty). *)
Defaults(frame) ==
    [ countries     |-> Range(Column(frame, "country")),
      products      |-> Range(Column(frame, "product")),
      sales_persons |-> Range(Column(frame, "sales_person")),
      date_range    |-> Extent(frame, "date"),
      amount_range  |-> Extent(frame, "amount"),
      boxes_range   |-> Extent(frame, "boxes_shipped"),
      sale_type     |-> SaleTypes,
      sort_by       |-> "amount",
      sort_order    |-> "Ascending" ]

(* The widgets of a session in which the sidebar has not been built.       *)
NoWidgets ==
    [ countries |-> {}, products |-> {}, sales_persons |-> {},
      date_range |-> << 0, 0 >>, amount_range |-> << 0, 0 >>,
      boxes_range |-> << 0, 0 >>, sale_type |-> SaleTypes,
      sort_by |-> "amount", sort_order |-> "Ascending" ]

(* What a widget is built from: a multiselect from the unique values (its   *)
(* options are their sorted list, its default their list), a slider or the *)
(* date input from the column's minimum and maximum.                       *)
WidgetArgs(w, frame) ==
    IF w \in MultiSelects THEN UniqueSeq(Column(frame, WidgetColumn(w)))
    ELSE Extent(frame, WidgetColumn(w))

(* Streamlit keeps a widget's value from one run to the next as long as    *)
(* the widget is built from the same arguments; a widget built from other  *)
(* arguments is a new widget and starts at its default.                    *)
KeepWidgets(w, wasRendered, prevFrame, frame) ==
    LET d == Defaults(frame)
        kept(name) ==
            IF wasRendered /\ prevFrame # << >>
                 /\ WidgetArgs(name, prevFrame) = WidgetArgs(name, frame)
            THEN w[name] ELSE d[name]
    IN  IF ~wasRendered THEN d
        ELSE [ countries     |-> kept("countries"),
               products      |-> kept("products"),
               sales_persons |-> kept("sales_persons"),
               date_range    |-> kept("date_range"),
               amount_range  |-> kept("amount_range"),
               boxes_range   |-> kept("boxes_range"),
               sale_type     |-> w.sale_type,
               sort_by       |-> w.sort_by,
               sort_order    |-> w.sort_order ]

(* The widgets that are away from their default.                           *)
Touched(w, frame) ==
    LET d == Defaults(frame)
    IN  { name \in DOMAIN w : w[name] # d[name] }

(* The values a user can give one widget, the others left as they are.     *)
WidgetChoices(w, frame) ==
    LET ranges(col) == { << lo, hi >> \in Range(Column(frame, col)) \X Range(Column(frame, col)) : lo <= hi }
    IN  { [ w EXCEPT !.countries = c ] : c \in SUBSET Range(Column(frame, "country")) }
   \cup { [ w EXCEPT !.products = c ] : c \in SUBSET Range(Column(frame, "product")) }
   \cup { [ w EXCEPT !.sales_persons = c ] : c \in SUBSET Range(Column(frame, "sales_person")) }
   \cup { [ w EXCEPT !.date_range = c ] : c \in ranges("date") }
   \cup { [ w EXCEPT !.amount_range = c ] : c \in ranges("amount") }
   \cup { [ w EXCEPT !.boxes_range = c ] : c \in ranges("boxes_shipped") }
   \cup { [ w EXCEPT !.sale_type = c ] : c \in SUBSET SaleTypes }
   \cup { [ w EXCEPT !.sort_by = c ] : c \in SortKeys }
   \cup { [ w EXCEPT !.sort_order = c ] : c \in SortOrders }

-----------------------------------------------------------------------------
(* The query: main, lines 189-202.                                         *)

Between(x, range) == range[1] <= x /\ x <= range[2]

(* Lines 190-198: the conjunction of the seven clauses.                    *)
ApplyFilters(frame, w) ==
    SelectSeq(frame, LAMBDA rec :
        /\ rec.country \in w.countries
        /\ rec.product \in w.products
        /\ rec.sales_person \in w.sales_persons
        /\ Between(rec.date, w.date_range)
        /\ Between(rec.amount, w.amount_range)
        /\ Between(rec.boxes_shipped, w.boxes_range)
        /\ rec.sale_type \in w.sale_type)

Ordered(frame, by, ascending) ==
    \A i \in 1..(Len(frame) - 1) :
        IF ascending THEN frame[i][by] <= frame[i + 1][by]
        ELSE frame[i][by] >= frame[i + 1][by]

KeepOrder(frame, by, ascending) == { frame }

(* Lines 201-202: sort_values(by, ascending) with the default kind,        *)
(* quicksort, which is not stable: rows with equal keys may come out in    *)
(* any order.  The set of the frames the call may return.                  *)
SortValues(frame, by, ascending) ==
    { g \in { [ i \in 1..Len(frame) |-> frame[p[i]] ] : p \in Perms(Len(frame)) } :
        Ordered(g, by, ascending) }

SortFrame(frame, by, order) == SortValues(frame, by, order = "Ascending")

-----------------------------------------------------------------------------
(* Aggregation: main, lines 211-233 and 238-239.                           *)

(* The strings of the model in Python's string order, which is the order   *)
(* groupby puts its group keys in.                                         *)
SortedStrings ==
    << "50% Dark Bites", "A&B", "Alice", "Bob", "Carol", "Dan", "Erin", "Frank",
       "Grace", "India", "Milk Bars", "UK" >>

Rank(x) == CHOOSE i \in 1..Len(SortedStrings) : SortedStrings[i] = x

RECURSIVE SortStrings(_)
SortStrings(S) ==
    IF S = {} THEN << >>
    ELSE LET m == CHOOSE x \in S : \A y \in S : Rank(x) <= Rank(y)
         IN  << m >> \o SortStrings(S \ {m})

RECURSIVE SortNumbers(_)
SortNumbers(S) ==
    IF S = {} THEN << >>
    ELSE << Min(S) >> \o SortNumbers(S \ {Min(S)})

SumWhere(frame, key, k, metric) ==
    SumSeq(Column(SelectSeq(frame, LAMBDA rec : rec[key] = k), metric))

(* groupby(key)[metric].sum(): one entry per group, the groups in the      *)
(* sorted order of their keys (groupby's default sort=True).               *)
GroupSumFirstSeen(frame, key, metric) ==
    LET keys == UniqueSeq(Column(frame, key))
    IN  [ i \in 1..Len(keys) |-> [ key |-> keys[i], value |-> SumWhere(frame, key, keys[i], metric) ] ]

GroupSum(frame, key, metric) ==
    LET keys == SortStrings(Range(Column(frame, key)))
    IN  [ i \in 1..Len(keys) |-> [ key |-> keys[i], value |-> SumWhere(frame, key, keys[i], metric) ] ]

(* A stable sort of a series by descending value.                          *)
RECURSIVE StableDescending(_)
StableDescending(series) ==
    IF series = << >> THEN << >>
    ELSE LET top == Max({ series[i].value : i \in 1..Len(series) })
             at == Min({ i \in 1..Len(series) : series[i].value = top })
         IN  << series[at] >>
             \o StableDescending(SubSeq(series, 1, at - 1) \o SubSeq(series, at + 1, Len(series)))

(* Series.nlargest(n), keep='first'.  With n >= len(series) pandas returns *)
(* sort_values(ascending=False).head(n), an unstable sort: entries with    *)
(* equal values may come in any order.  Otherwise it selects the entries   *)
(* not below the n-th largest value, orders them with a stable sort and    *)
(* keeps the first n.  The set of the series the call may return.          *)
NLargest(series, n) ==
    IF n >= Len(series)
    THEN { g \in { [ i \in 1..Len(series) |-> series[p[i]] ] : p \in Perms(Len(series)) } :
             \A i \in 1..(Len(g) - 1) : g[i].value >= g[i + 1].value }
    ELSE { SubSeq(StableDescending(series), 1, n) }

(* Lines 211, 219 and 227.                                                 *)
TopPerformers(frame, key) == NLargest(GroupSum(frame, key, "amount"), TopCount)

TopKeys(frame, key) ==
    UNION { { t[i].key : i \in 1..Len(t) } : t \in TopPerformers(frame, key) }

(* Lines 238-239: the metric summed per calendar month, months ascending.  *)
Monthly(frame, metric) ==
    LET month(rec) == rec.date \div 100
        months == SortNumbers({ month(frame[i]) : i \in 1..Len(frame) })
    IN  [ i \in 1..Len(months) |->
            [ month |-> months[i],
              value |-> SumSeq(Column(SelectSeq(frame, LAMBDA rec : month(rec) = months[i]), metric)) ] ]

-----------------------------------------------------------------------------
(* The detectors: main, lines 395-410.                                     *)

(* Line 397.                                                               *)
Anomalies(frame) == SelectSeq(frame, LAMBDA rec : rec.amount > AnomalyThreshold)

(* Line 405: pct_change() is value / previous value - 1; the first entry   *)
(* has no previous value and is NaN.  A float division by zero does not    *)
(* raise: x / 0 is inf for x > 0 and NaN for x = 0.  A finite result is    *)
(* kept as the fraction num / den; den > 0, as amounts and box counts are  *)
(* not negative.                                                           *)
PctChange(values) ==
    [ i \in 1..Len(values) |->
        IF i = 1 THEN [ kind |-> "nan", num |-> 0, den |-> 1 ]
        ELSE IF values[i - 1] = 0
             THEN IF values[i] = 0 THEN [ kind |-> "nan", num |-> 0, den |-> 1 ]
                  ELSE [ kind |-> "inf", num |-> 0, den |-> 1 ]
             ELSE [ kind |-> "num", num |-> values[i] - values[i - 1], den |-> values[i - 1] ] ]

(* Line 406: pct * 100 < -50.  A comparison with NaN is false.             *)
BelowThresholdOrEqual(pct) ==
    pct.kind = "num" /\ pct.num * 100 <= DropThreshold * pct.den

BelowThreshold(pct) ==
    pct.kind = "num" /\ pct.num * 100 < DropThreshold * pct.den

(* Lines 405-408: the positions, counted from 0, of the flagged months.    *)
Drops(series) ==
    LET pct == PctChange(Column(series, "value"))
    IN  SortNumbers({ i - 1 : i \in { j \in 1..Len(series) : BelowThreshold(pct[j]) } })

-----------------------------------------------------------------------------
(* The state machine.                                                      *)

NoData == [ loaded |-> FALSE, rows |-> << >> ]
NoStatement == [ stmt |-> "none", id |-> 0 ]
NoOverride == [ made |-> FALSE, id |-> 0, sale_type |-> "" ]

(* The records the Owner may type into the forms (lines 326-332, 354-360). *)
NewSales ==
    { [ sales_person |-> "Bob", country |-> "UK", product |-> "50% Dark Bites",
        date |-> 20220105, amount |-> 100, boxes_shipped |-> 5,
        sale_type |-> "Wholesale" ] }

(* Lines 17-27: a fresh st.session_state, and nothing shown yet.           *)
FreshSession ==
    /\ logged_in' = FALSE
    /\ username' = ""
    /\ role' = ""
    /\ data' = NoData
    /\ widgets' = NoWidgets
    /\ rendered' = FALSE
    /\ df' = << >>
    /\ filtered_df' = << >>
    /\ anomalies' = << >>
    /\ message' = ""
    /\ sql' = NoStatement
    /\ mutated' = FALSE

(* The process has started (init_db, lines 29-56) and no browser session   *)
(* has logged in.                                                          *)
InitSession(userTables, files) ==
    /\ users \in userTables
    /\ sales = EmptySalesTable
    /\ csv \in files
    /\ cache = [ hit |-> FALSE, value |-> << >> ]
    /\ logged_in = FALSE
    /\ username = ""
    /\ role = ""
    /\ data = NoData
    /\ message = ""
    /\ sql = NoStatement
    /\ ingests = 0
    /\ restarts = 0
    /\ inserts = 0
    /\ mutated = FALSE
    /\ override = NoOverride

NoFile == [ exists |-> FALSE, rows |-> << >> ]

InitFrom(userTables) ==
    /\ InitSession(userTables, { [ exists |-> TRUE, rows |-> f ] : f \in CsvFiles } \cup { NoFile })
    /\ widgets = NoWidgets
    /\ rendered = FALSE
    /\ df = << >>
    /\ filtered_df = << >>
    /\ anomalies = << >>
    /\ top_reps = << >>
    /\ monthly = << >>
    /\ drops = << >>

(* A fresh sales_data.db: init_db has created the two empty tables.        *)
Init == InitFrom({ {} })

(* Lines 153-159 with load_data (lines 81-100): what the run finds as      *)
(* st.session_state.data, and what loading it does to the cache and the    *)
(* store.  The body of load_data runs only when the cache has no entry.    *)
LoadStep(d) ==
    IF d.loaded
    THEN [ ok |-> TRUE, rows |-> d.rows, cache |-> cache, sales |-> sales, ingests |-> ingests ]
    ELSE IF ~csv.exists
    THEN [ ok |-> FALSE, rows |-> << >>, cache |-> cache, sales |-> sales, ingests |-> ingests ]
    ELSE IF cache.hit
    THEN [ ok |-> TRUE, rows |-> cache.value, cache |-> cache, sales |-> sales, ingests |-> ingests ]
    ELSE LET frame == Normalize(csv.rows)
         IN  [ ok |-> TRUE, rows |-> frame, cache |-> [ hit |-> TRUE, value |-> frame ],
               sales |-> ToSqlReplace(frame), ingests |-> ingests + 1 ]

(* Lines 161-239 and 395-408: what one run of the page computes from the   *)
(* session's rows.  An empty scoped frame stops the run in the sidebar:    *)
(* min() of an empty column is NaN and int(NaN) raises (line 182).  When   *)
(* the run is stopped by a later exception (completes = FALSE) the         *)
(* detectors at the end of the script are not reached.                     *)
Page(rows, r, name, w, wasRendered, prevFrame, completes) ==
    LET scoped == Scope(rows, r, name)
    IN  /\ df' = scoped
        /\ IF scoped = << >>
           THEN /\ rendered' = FALSE
                /\ widgets' = NoWidgets
                /\ filtered_df' = << >>
                /\ anomalies' = << >>
           ELSE LET w2 == KeepWidgets(w, wasRendered, prevFrame, scoped)
                IN  /\ rendered' = TRUE
                    /\ widgets' = w2
                    /\ \E f \in SortFrame(ApplyFilters(scoped, w2), w2.sort_by, w2.sort_order) :
                         /\ filtered_df' = f
                         /\ anomalies' = IF completes THEN Anomalies(f) ELSE << >>

PageRenders(rows, r, name) == Scope(rows, r, name) # << >>

(* A script run of a logged-in session that executes no button: lines      *)
(* 153-410 with every button False.                                        *)
PlainRun(d, r, name, w, wasRendered, prevFrame) ==
    LET step == LoadStep(d)
    IN  /\ cache' = step.cache
        /\ sales' = step.sales
        /\ ingests' = step.ingests
        /\ sql' = NoStatement
        /\ IF ~step.ok
           THEN /\ data' = d
                /\ message' = "CSV file not found"
                /\ rendered' = FALSE
                /\ widgets' = NoWidgets
                /\ df' = << >>
                /\ filtered_df' = << >>
                /\ anomalies' = << >>
           ELSE /\ data' = [ loaded |-> TRUE, rows |-> step.rows ]
                /\ message' = IF PageRenders(step.rows, r, name) THEN "" ELSE "ValueError"
                /\ Page(step.rows, r, name, w, wasRendered, prevFrame, TRUE)

(* Lines 129-141: the Login button.  On success the session is set and     *)
(* st.rerun() runs the script again, now as a logged-in session.           *)
Login(name, password) ==
    /\ ~logged_in
    /\ LET res == AuthenticateUser(name, password, users)
       IN  IF res[1]
           THEN /\ logged_in' = TRUE
                /\ username' = name
                /\ role' = res[2]
                /\ PlainRun(data, res[2], name, widgets, rendered, df)
                /\ UNCHANGED << users, csv, restarts, inserts, mutated, override, charts >>
           ELSE /\ message' = "Invalid credentials"
                /\ UNCHANGED << users, sales, csv, cache, logged_in, username, role, data,
                                widgets, rendered, df, filtered_df, anomalies, charts,
                                sql, ingests, restarts, inserts, mutated, override >>

(* Lines 142-151: the Register button.                                     *)
Register(name, password, r) ==
    /\ ~logged_in
    /\ Cardinality(users) < MaxUsers + Cardinality({ u \in users : u.role \notin RegisterRoles })
    /\ LET res == AddUser(name, password, r, users)
       IN  /\ users' = res[2]
           /\ message' = IF res[1] THEN "User registered" ELSE "Username exists"
    /\ UNCHANGED << sales, csv, cache, logged_in, username, role, data, widgets, rendered,
                    df, filtered_df, anomalies, charts, sql, ingests, restarts, inserts,
                    mutated, override >>

(* A rerun that changes no filter: the forecast checkbox (lines 242-247,   *)
(* forecast_sales works on its argument and leaves the session alone), the *)
(* chart selectors, the dismiss buttons (lines 401 and 409), the download. *)
Rerun ==
    /\ logged_in
    /\ PlainRun(data, role, username, widgets, rendered, df)
    /\ UNCHANGED << users, csv, logged_in, username, role, restarts, inserts, mutated,
                    override, charts >>

(* One sidebar widget is given another value (lines 170-187).              *)
ChangeWidget(w) ==
    /\ logged_in
    /\ rendered
    /\ w \in WidgetChoices(widgets, df)
    /\ w # widgets
    /\ Cardinality(Touched(w, df)) <= MaxTouched
    /\ PlainRun(data, role, username, w, rendered, df)
    /\ UNCHANGED << users, csv, logged_in, username, role, restarts, inserts, mutated,
                    override, charts >>

(* Lines 213-216, 221-224 and 229-232: a button of a top performer.  The   *)
(* run that handles the click stores the rows of filtered_df with that key *)
(* as st.session_state.data and reruns the script.                         *)
DrillDown(key, k) ==
    /\ logged_in
    /\ rendered
    /\ data.loaded
    /\ k \in TopKeys(filtered_df, key)
    /\ LET scoped == Scope(data.rows, role, username)
           w1 == KeepWidgets(widgets, rendered, df, scoped)
       IN  /\ scoped # << >>
           /\ \E f \in SortFrame(ApplyFilters(scoped, w1), w1.sort_by, w1.sort_order) :
                /\ k \in TopKeys(f, key)
                /\ PlainRun([ loaded |-> TRUE,
                              rows |-> SelectSeq(f, LAMBDA rec : rec[key] = k) ],
                            role, username, w1, TRUE, scoped)
    /\ UNCHANGED << users, csv, logged_in, username, role, restarts, inserts, mutated,
                    override, charts >>

(* The forms of lines 272-284, 323-344 and 349-388 are on the page.        *)
FormsShown ==
    /\ logged_in
    /\ IsOwner(role)
    /\ rendered
    /\ data.loaded
    /\ PageRenders(data.rows, role, username)

(* Lines 277-284: the "Update Sale Type" button.  On a table without the   *)
(* id column the statement raises sqlite3.OperationalError (no such        *)
(* column: id), which ends the run before st.session_state.data is set.    *)
UpdateSaleType(id, t) ==
    /\ FormsShown
    /\ sql' = [ stmt |-> "UPDATE", id |-> id ]
    /\ IF sales.has_id
       THEN /\ sales' = SqlUpdate(sales, id, [ sale_type |-> t ], { "sale_type" })
            /\ data' = [ loaded |-> TRUE, rows |-> LoadDataFromDb(sales') ]
            /\ message' = "Sale type updated"
            /\ mutated' = TRUE
            /\ override' = IF IdPresent(sales, id)
                           THEN [ made |-> TRUE, id |-> id, sale_type |-> t ]
                           ELSE override
            /\ Page(data.rows, role, username, widgets, rendered, df, TRUE)
       ELSE /\ message' = "OperationalError"
            /\ Page(data.rows, role, username, widgets, rendered, df, FALSE)
            /\ UNCHANGED << sales, data, mutated, override >>
    /\ UNCHANGED << users, csv, cache, logged_in, username, role, ingests, restarts,
                    inserts, charts >>

(* Lines 334-344: the "Add Sale" form.                                     *)
AddSale(rec) ==
    /\ FormsShown
    /\ inserts < MaxInserts
    /\ sql' = [ stmt |-> "INSERT", id |-> 0 ]
    /\ sales' = SqlInsert(sales, rec)
    /\ data' = [ loaded |-> TRUE, rows |-> LoadDataFromDb(sales') ]
    /\ message' = "Sale added"
    /\ mutated' = TRUE
    /\ inserts' = inserts + 1
    /\ Page(data.rows, role, username, widgets, rendered, df, TRUE)
    /\ UNCHANGED << users, csv, cache, logged_in, username, role, ingests, restarts,
                    override, charts >>

(* Lines 367-379: the "Update Sale" button.                                *)
UpdateSale(id, rec) ==
    /\ FormsShown
    /\ sql' = [ stmt |-> "UPDATE", id |-> id ]
    /\ IF sales.has_id
       THEN /\ sales' = SqlUpdate(sales, id, rec, Columns)
            /\ data' = [ loaded |-> TRUE, rows |-> LoadDataFromDb(sales') ]
            /\ message' = "Sale updated"
            /\ mutated' = TRUE
            /\ override' = IF IdPresent(sales, id)
                           THEN [ made |-> TRUE, id |-> id, sale_type |-> rec.sale_type ]
                           ELSE override
            /\ Page(data.rows, role, username, widgets, rendered, df, TRUE)
       ELSE /\ message' = "OperationalError"
            /\ Page(data.rows, role, username, widgets, rendered, df, FALSE)
            /\ UNCHANGED << sales, data, mutated, override >>
    /\ UNCHANGED << users, csv, cache, logged_in, username, role, ingests, restarts,
                    inserts, charts >>

(* Lines 381-388: the "Delete Sale" button.                                *)
DeleteSale(id) ==
    /\ FormsShown
    /\ sql' = [ stmt |-> "DELETE", id |-> id ]
    /\ IF sales.has_id
       THEN /\ sales' = SqlDelete(sales, id)
            /\ data' = [ loaded |-> TRUE, rows |-> LoadDataFromDb(sales') ]
            /\ message' = "Sale deleted"
            /\ mutated' = TRUE
            /\ override' = IF override.made /\ override.id = id THEN NoOverride ELSE override
            /\ Page(data.rows, role, username, widgets, rendered, df, TRUE)
       ELSE /\ message' = "OperationalError"
            /\ Page(data.rows, role, username, widgets, rendered, df, FALSE)
            /\ UNCHANGED << sales, data, mutated, override >>
    /\ UNCHANGED << users, csv, cache, logged_in, username, role, ingests, restarts,
                    inserts, charts >>

(* A browser session starts (a new tab, a reload): lines 17-27.            *)
NewSession ==
    /\ logged_in \/ message # ""
    /\ FreshSession
    /\ UNCHANGED << users, sales, csv, cache, ingests, restarts, inserts, override, charts >>

(* The server process restarts: the cache of load_data is in process       *)
(* memory and is lost, sales_data.db and the CSV file stay.                *)
Restart ==
    /\ restarts < MaxRestarts
    /\ restarts' = restarts + 1
    /\ cache' = [ hit |-> FALSE, value |-> << >> ]
    /\ FreshSession
    /\ UNCHANGED << users, sales, csv, ingests, inserts, override, charts >>

Next ==
    \/ \E name \in Usernames, password \in Passwords : Login(name, password)
    \/ \E name \in Usernames, r \in RegisterRoles : Register(name, "pw", r)
    \/ Rerun
    \/ \E w \in WidgetChoices(widgets, df) : ChangeWidget(w)
    \/ \E key \in { "sales_person", "product", "country" } :
         \E k \in TopKeys(filtered_df, key) : DrillDown(key, k)
    \/ \E id \in 1..MaxId, t \in SaleTypes : UpdateSaleType(id, t)
    \/ \E rec \in NewSales : AddSale(rec)
    \/ \E id \in 1..MaxId, rec \in NewSales : UpdateSale(id, rec)
    \/ \E id \in 1..MaxId : DeleteSale(id)
    \/ NewSession

Spec == Init /\ [][Next]_vars

(* The store across processes: the interactions that reach the store, and  *)
(* the restart of the server process.                                      *)
NextStore ==
    \/ \E name \in Usernames, password \in Passwords : Login(name, password)
    \/ \E name \in Usernames, r \in RegisterRoles : Register(name, "pw", r)
    \/ Rerun
    \/ \E id \in 1..MaxId, t \in SaleTypes : UpdateSaleType(id, t)
    \/ \E rec \in NewSales : AddSale(rec)
    \/ \E id \in 1..MaxId, rec \in NewSales : UpdateSale(id, rec)
    \/ \E id \in 1..MaxId : DeleteSale(id)
    \/ NewSession
    \/ Restart

SpecStore == Init /\ [][NextStore]_vars

(* The program started on a sales_data.db whose users table holds a row    *)
(* the Register form did not write.                                        *)
InitStored == InitFrom(StoredUserTables)

SpecStored == InitStored /\ [][Next]_vars

-----------------------------------------------------------------------------
(* The query, the top performers and the drop detector as functions of     *)
(* the frame they are given.                                               *)

session == << users, sales, csv, cache, logged_in, username, role, data, message, sql,
              ingests, restarts, inserts, mutated, override >>

(* The canonical rows the frames of SpecQuery are made of.                 *)
QueryPool == { NormalizeRow(raw) : raw \in RawPool } \cup NewSales

QueryFrames == UNION { [1..n -> QueryPool] : n \in 1..MaxQueryRows }

InitQuery ==
    /\ InitSession({ {} }, { NoFile })
    /\ df \in QueryFrames
    /\ widgets = Defaults(df)
    /\ rendered = FALSE
    /\ filtered_df = << >>
    /\ anomalies = << >>
    /\ top_reps = << >>
    /\ monthly = << >>
    /\ drops = << >>

(* Lines 168-202 and 397 on the scoped frame df with the widgets at w.     *)
Query(w) ==
    /\ Cardinality(Touched(w, df)) <= MaxTouched
    /\ Page(df, "Owner", username, w, TRUE, df, TRUE)
    /\ UNCHANGED << session, charts >>

NextQuery == \E w \in { widgets } \cup WidgetChoices(widgets, df) : Query(w)

SpecQuery == InitQuery /\ [][NextQuery]_vars

(* The frames of SpecTop: one row per sales person, the persons in a       *)
(* rotation of the alphabetical list or of its reverse, then possibly a    *)
(* second row of the first person.                                         *)
TopNames == << "Alice", "Bob", "Carol", "Dan", "Erin", "Frank", "Grace" >>

TopRow(name, amount) ==
    [ sales_person |-> name, country |-> "UK", product |-> "Milk Bars",
      date |-> 20220105, amount |-> amount, boxes_shipped |-> 5, sale_type |-> "Retail" ]

NameOrders ==
    LET m == Min({ MaxTopGroups, Len(TopNames) })
        rotation(k) == [ i \in 1..m |-> TopNames[((i + k - 1) % m) + 1] ]
        reversed(o) == [ i \in 1..m |-> o[m + 1 - i] ]
    IN  { rotation(k) : k \in 0..(m - 1) } \cup { reversed(rotation(k)) : k \in 0..(m - 1) }

TopFrames ==
    { [ i \in 1..n |-> TopRow(o[i], a[i]) ] \o extra :
        o \in NameOrders, n \in 1..Min({ MaxTopGroups, Len(TopNames) }),
        a \in [ 1..MaxTopGroups -> { 1, 2 } ],
        extra \in { << >>, << TopRow("Alice", 1) >> } }

InitCharts(frames) ==
    /\ InitSession({ {} }, { NoFile })
    /\ filtered_df \in frames
    /\ df = filtered_df
    /\ widgets = Defaults(df)
    /\ rendered = FALSE
    /\ anomalies = << >>
    /\ top_reps = << >>
    /\ monthly = << >>
    /\ drops = << >>

InitTop == InitCharts(TopFrames)

(* Line 211.                                                               *)
ComputeTop ==
    /\ ~rendered
    /\ top_reps' \in TopPerformers(filtered_df, "sales_person")
    /\ rendered' = TRUE
    /\ UNCHANGED << session, widgets, df, filtered_df, anomalies, monthly, drops >>

NextTop == ComputeTop

SpecTop == InitTop /\ [][NextTop]_vars

(* The frames of SpecTrend: rows of three calendar months with small       *)
(* amounts, zero included.                                                 *)
TrendDates == { 20220105, 20220215, 20220310 }

TrendFrames ==
    UNION { [ 1..n -> { [ TopRow("Alice", a) EXCEPT !.date = d ] :
                          a \in 0..MaxTrendValue, d \in TrendDates } ] :
            n \in 1..MaxTrendRows }

InitTrend == InitCharts(TrendFrames)

(* Lines 237-238 and 405-406 with the selectbox at metric.                 *)
ComputeTrend(metric) ==
    /\ ~rendered
    /\ monthly' = Monthly(filtered_df, metric)
    /\ drops' = Drops(monthly')
    /\ rendered' = TRUE
    /\ UNCHANGED << session, widgets, df, filtered_df, anomalies, top_reps >>

NextTrend == \E metric \in Metrics : ComputeTrend(metric)

SpecTrend == InitTrend /\ [][NextTrend]_vars

-----------------------------------------------------------------------------
(* Properties.                                                             *)

AllOf(frame, name) == \A i \in 1..Len(frame) : frame[i].sales_person = name

C2_OnlyOwnerMutates ==
    /\ [](sql.stmt \in { "INSERT", "UPDATE", "DELETE" } => (logged_in /\ role = "Owner"))
    /\ [][sales' # sales => (role' = "Owner" \/ ingests' # ingests)]_vars

(* A Sales Rep session is on its page after the Owner has added a sale.    *)
C2_Witness ==
    /\ logged_in
    /\ role = "Sales Rep"
    /\ rendered
    /\ inserts > 0
    /\ sql.stmt = "none"

C4_OverrideKept ==
    /\ ingests <= 1
    /\ (override.made /\ data.loaded) =>
           \A i \in 1..Len(data.rows) :
               ("id" \in DOMAIN data.rows[i] /\ data.rows[i].id = override.id)
                   => data.rows[i].sale_type = override.sale_type

SuccessMessages == { "Sale type updated", "Sale added", "Sale updated", "Sale deleted" }
UncaughtExceptions == { "OperationalError", "ValueError" }

(* C5: an UPDATE or DELETE whose id is in no row of sales leaves the table *)
(* as it was and is answered with a rejection: neither a success message   *)
(* nor an exception nobody catches.                                        *)
C5_AbsentIdRejected ==
    [][(sql'.stmt \in { "UPDATE", "DELETE" } /\ ~IdPresent(sales, sql'.id)) =>
          /\ sales' = sales
          /\ message' \notin SuccessMessages
          /\ message' \notin UncaughtExceptions]_vars

(* C6: every row of sales has an id, and no two rows have the same id.     *)
C6_UniqueIds ==
    /\ \A i \in 1..Len(sales.rows) : "id" \in DOMAIN sales.rows[i]
    /\ \A i, j \in 1..Len(sales.rows) :
           ("id" \in DOMAIN sales.rows[i] /\ "id" \in DOMAIN sales.rows[j]
              /\ sales.rows[i].id = sales.rows[j].id) => i = j

(* C10: as long as the session has made no create, update or delete, its   *)
(* st.session_state.data is the frame load_data returned.                  *)
C10_SessionDataKept ==
    (logged_in /\ data.loaded /\ ~mutated) => data.rows = cache.value

-----------------------------------------------------------------------------
(* The query at its defaults (SpecQuery).                                  *)

SameRows(a, b) ==
    /\ Len(a) = Len(b)
    /\ \E p \in Perms(Len(a)) : \A i \in 1..Len(a) : a[i] = b[p[i]]

AtDefaults == rendered /\ widgets = Defaults(df)

-----------------------------------------------------------------------------
(* The top performers (SpecTop).                                           *)

Groups == { filtered_df[i].sales_person : i \in 1..Len(filtered_df) }
Total(k) == SumWhere(filtered_df, "sales_person", k, "amount")
Shown == { top_reps[i].key : i \in 1..Len(top_reps) }
FirstSeen(k) == Min({ i \in 1..Len(filtered_df) : filtered_df[i].sales_person = k })

(* The entries are the groups with the largest sums, largest first.        *)
LargestSums ==
    /\ Len(top_reps) = Min({ TopCount, Cardinality(Groups) })
    /\ Cardinality(Shown) = Len(top_reps)
    /\ \A i \in 1..Len(top_reps) :
           top_reps[i].key \in Groups /\ top_reps[i].value = Total(top_reps[i].key)
    /\ \A i \in 1..(Len(top_reps) - 1) : top_reps[i].value >= top_reps[i + 1].value
    /\ \A k \in Groups \ Shown : \A i \in 1..Len(top_reps) : Total(k) <= top_reps[i].value

(* Groups with equal sums are in the order before, and a tie at the cut    *)
(* is decided by it.                                                       *)
TiesFollow(before(_, _)) ==
    /\ \A i, j \in 1..Len(top_reps) :
           (i < j /\ top_reps[i].value = top_reps[j].value)
               => before(top_reps[i].key, top_reps[j].key)
    /\ \A k \in Groups \ Shown : \A i \in 1..Len(top_reps) :
           Total(k) = top_reps[i].value => before(top_reps[i].key, k)

(* C8: the entries are the min(5, number of groups) groups with the        *)
(* largest sums, largest first; with more than five groups, groups with    *)
(* equal sums are in the ascending order of their keys and that order      *)
(* decides which of them is kept at the cut.                               *)
C8_TopFiveTiesByKey ==
    rendered =>
        /\ LargestSums
        /\ Cardinality(Groups) > TopCount => TiesFollow(LAMBDA x, y : Rank(x) < Rank(y))

(* Six groups, and a group left out has the sum of the last entry although *)
(* it is seen before that entry's group.                                   *)
C8_Witness ==
    /\ rendered
    /\ Cardinality(Groups) > TopCount
    /\ \E k \in Groups \ Shown :
           /\ Total(k) = top_reps[Len(top_reps)].value
           /\ FirstSeen(k) < FirstSeen(top_reps[Len(top_reps)].key)

(* C8 as stated: groups with equal sums follow the order in which they     *)
(* were first seen in the frame.                                           *)
C8_TiesFirstSeen ==
    rendered =>
        /\ LargestSums
        /\ TiesFollow(LAMBDA x, y : FirstSeen(x) < FirstSeen(y))

-----------------------------------------------------------------------------
(* The drop detector (SpecTrend).                                          *)

Flagged(i) == \E j \in 1..Len(drops) : drops[j] = i - 1

(* C9: the i-th month of the series is flagged exactly when it is not the  *)
(* first, the month before is not zero and (curr - prev) / prev * 100 is   *)
(* below -50; sums are not negative, so the inequality is multiplied by    *)
(* prev.                                                                   *)
C9_DropsStrictlyBelow ==
    rendered =>
        \A i \in 1..Len(monthly) :
            Flagged(i) <=>
                /\ i > 1
                /\ monthly[i - 1].value # 0
                /\ (monthly[i].value - monthly[i - 1].value) * 100 < -50 * monthly[i - 1].value

(* Three months: the first is zero, the second is not flagged, the third   *)
(* has fallen by more than half and is the one month flagged.              *)
C9_Witness ==
    /\ rendered
    /\ Len(monthly) = 3
    /\ monthly[1].value = 0
    /\ monthly[2].value > 2 * monthly[3].value
    /\ drops = << 2 >>

====
